---- MODULE Spec2Model ----
(***************************************************************************)
(* td-tui: the component tree (run_loop -> LayoutRoot -> TabLayout ->      *)
(* BasicTaskList -> TextInputModal), the task store it edits and the file  *)
(* the store is written to.                                                *)
(*                                                                         *)
(* src/td-tui/src/ui/mod.rs and src/td-tui/src/main.rs are translated      *)
(* line by line.  TextInputModal (ui/modal/text_input.rs), TabLayout       *)
(* (ui/tab_layout.rs) and td_lib's Database / DatabaseInfo are not part of *)
(* the sources at hand: they are modelled from the design document and are *)
(* marked as such where they are defined.                                  *)
(***************************************************************************)
EXTENDS Integers, Sequences, FiniteSets, TLC

\* ---------------------------------------------------------------- bounds
\* Largest number of tasks in the database file found at startup.
MaxTasks == 2
\* Longest text typed into a modal's buffer.
MaxBuf == 1
\* Largest value the selection index is followed to (release builds let it
\* grow without limit on an empty store).
MaxIndex == 2
\* Timestamps are drawn from 1..MaxTime.
MaxTime == 2

\* Stand-in for usize::MAX, the value of `0usize - 1` when overflow checks are
\* off; all that matters is that it is larger than every index.
UsizeMax == 2147483647

\* ------------------------------------------------------------------ keys
\* KeyCode::Char(_) codes.
Chars == {"c", "d", "q", "s"}

KeyCodes == Chars \cup {"Enter", "Esc", "Backspace", "Up", "Down", "Left", "Right", "Tab"}

\* KeyEvent: a code and whether KeyModifiers::CONTROL is held (no other
\* modifier is followed; ctrl = FALSE is `modifiers.is_empty()`).
Keys == {[code |-> k, ctrl |-> FALSE] : k \in KeyCodes}
          \cup {[code |-> k, ctrl |-> TRUE] : k \in {"c", "d"}}

NoKey == [code |-> "none", ctrl |-> FALSE]

\* ------------------------------------------------------------ sequences
RECURSIVE SeqsUpTo(_, _)
SeqsUpTo(S, n) ==
    IF n = 0 THEN {<<>>}
    ELSE LET shorter == SeqsUpTo(S, n - 1)
         IN  shorter \cup {Append(s, x) : s \in {t \in shorter : Len(t) = n - 1}, x \in S}

Reverse(s) == [i \in 1..Len(s) |-> s[Len(s) + 1 - i]]

Front(s) == IF Len(s) = 0 THEN s ELSE SubSeq(s, 1, Len(s) - 1)

\* ------------------------------------------------- td_lib: store and file
\* (td_lib is not among the sources at hand; modelled from the design
\* document, sections 3 and 6.)

\* Titles of the tasks found in the database file at startup.
InitTitles == {<<"q">>}

\* DatabaseInfo: the persisted snapshot, a list of {title, time_created}.
\* The files considered hold their tasks in creation order.
DatabaseInfos ==
    {info \in SeqsUpTo([title : InitTitles, time : 1..MaxTime], MaxTasks) :
        \A i \in 1..(Len(info) - 1) : info[i].time <= info[i + 1].time}

\* DatabaseInfo::default()
DefaultInfo == <<>>

\* Database.tasks: the live nodes in handle order; h is the node's handle,
\* stable until the node is removed.
\* TryFrom<DatabaseInfo> for Database.
DatabaseOf(info) ==
    [i \in 1..Len(info) |-> [h |-> i, title |-> info[i].title, time |-> info[i].time]]

\* From<&Database> for DatabaseInfo.
InfoOf(db) == [i \in 1..Len(db) |-> [title |-> db[i].title, time |-> db[i].time]]

\* tasks.node_indices(): the live handles, in handle order.
NodeIndices(db) == [i \in 1..Len(db) |-> db[i].h]

\* tasks.node_weights(): the live tasks, in handle order.
NodeWeights(db) == db

FreshHandle(db) ==
    IF Len(db) = 0 THEN 1
    ELSE 1 + (CHOOSE m \in {db[i].h : i \in 1..Len(db)} :
                 \A i \in 1..Len(db) : db[i].h <= m)

\* tasks.add_node(task)
AddNode(db, title, time) ==
    Append(db, [h |-> FreshHandle(db), title |-> title, time |-> time])

\* tasks.remove_node(handle): only that handle goes, the others stay valid.
RemoveNode(db, handle) == SelectSeq(db, LAMBDA t : t.h # handle)

\* The file at `path`: whether it exists, whether it can be read and
\* converted, and the snapshot it holds.
NoFile == [exists |-> FALSE, corrupt |-> FALSE, info |-> <<>>]

\* DatabaseInfo::write(path), when it succeeds: the whole snapshot replaces
\* the file.
Written(info) == [exists |-> TRUE, corrupt |-> FALSE, info |-> info]

\* ------------------------------------------------------- TextInputModal
\* (ui/modal/text_input.rs is not among the sources at hand; modelled from
\* the design document, section 4.2.)

\* TextInputModal::new(title)
NewModal == [is_open |-> FALSE, text |-> <<>>]

\* TextInputModal::is_open()
IsOpen(m) == m.is_open

\* TextInputModal::open(): Closed -> Open, clears the text buffer.
ModalOpen(m) == [is_open |-> TRUE, text |-> <<>>]

\* TextInputModal::close(): -> Closed, returns the buffer content (None when
\* the modal was not open).
ModalClose(m) ==
    [modal |-> [is_open |-> FALSE, text |-> <<>>],
     some  |-> m.is_open,
     text  |-> m.text]

\* TextInputModal::update(key): unhandled when closed; when open every key is
\* handled: a character is appended, Backspace removes the last character,
\* Escape closes and resets the buffer (a closed modal holds no stale text),
\* Enter and every other key change nothing.
ModalUpdate(m, key) ==
    IF ~m.is_open THEN [modal |-> m, handled |-> FALSE]
    ELSE IF key.code \in Chars /\ ~key.ctrl
         THEN [modal |-> [m EXCEPT !.text = Append(@, key.code)], handled |-> TRUE]
    ELSE IF key.code = "Backspace"
         THEN [modal |-> [m EXCEPT !.text = Front(@)], handled |-> TRUE]
    ELSE IF key.code = "Esc"
         THEN [modal |-> [is_open |-> FALSE, text |-> <<>>], handled |-> TRUE]
    ELSE [modal |-> m, handled |-> TRUE]

\* -------------------------------------------------------- BasicTaskList
\* BasicTaskList::new(reverse)
NewList(reverse) == [index |-> 0, task_popup |-> NewModal, reverse |-> reverse]

\* tasks.sort_by(|a, b| a.time_created.cmp(&b.time_created)): a stable sort.
RECURSIVE InsertByTime(_, _)
InsertByTime(sorted, t) ==
    IF Len(sorted) = 0 THEN <<t>>
    ELSE IF sorted[Len(sorted)].time <= t.time THEN Append(sorted, t)
    ELSE Append(InsertByTime(Front(sorted), t), sorted[Len(sorted)])

RECURSIVE SortByTime(_)
SortByTime(tasks) ==
    IF Len(tasks) = 0 THEN <<>>
    ELSE InsertByTime(SortByTime(Front(tasks)), tasks[Len(tasks)])

\* Mutant of DisplayedTasks: the reversed list is reversed before it is
\* sorted.
DisplayedTasksReversedFirst(l, db) ==
    IF l.reverse THEN SortByTime(Reverse(NodeWeights(db))) ELSE SortByTime(NodeWeights(db))

\* render, lines 132-137: the rows in display order.
DisplayedTasks(l, db) ==
    IF l.reverse THEN Reverse(SortByTime(NodeWeights(db))) ELSE SortByTime(NodeWeights(db))

\* Mutant of Selected: the empty store is not told apart.
SelectedAlways(l, db) == [some |-> TRUE, idx |-> l.index]

\* render, lines 164-169: list_state.select(..).
Selected(l, db) ==
    IF Len(DisplayedTasks(l, db)) = 0
    THEN [some |-> FALSE, idx |-> 0]
    ELSE [some |-> TRUE, idx |-> l.index]

\* BasicTaskList::render: the rows, the highlighted row and the popup drawn
\* over them when it is open.
RenderList(l, db) ==
    [rows     |-> [i \in 1..Len(DisplayedTasks(l, db)) |-> DisplayedTasks(l, db)[i].title],
     selected |-> Selected(l, db),
     popup    |-> IF IsOpen(l.task_popup)
                  THEN [some |-> TRUE, text |-> l.task_popup.text]
                  ELSE [some |-> FALSE, text |-> <<>>]]

\* Mutant of ClampIndex: the index is used as it was left.
ClampIndexMissing(index, len) == index

\* update, lines 183-185: self.index.clamp(0, len - 1) on a non-empty store.
ClampIndex(index, len) ==
    IF len # 0
    THEN (IF index < 0 THEN 0 ELSE IF index > len - 1 THEN len - 1 ELSE index)
    ELSE index

\* update, line 213: task_indices[self.index] panics on an index that is not
\* below the length.
InBounds(task_indices, index) == index < Len(task_indices)

\* update, line 213: the handle the `d` binding removes (self.index is
\* zero-based).
DeleteTarget(task_indices, index) == task_indices[index + 1]

\* update, lines 221-226: KeyCode::Up.
IndexUp(index) == IF index # 0 THEN index - 1 ELSE index

\* `task_indices.len() - 1` on usize, line 228: with overflow checks a zero
\* length panics, without them the result wraps.
LenMinusOne(len, checked) ==
    IF len = 0
    THEN [panic |-> checked, value |-> UsizeMax]
    ELSE [panic |-> FALSE, value |-> len - 1]

\* update, lines 227-232: KeyCode::Down.
IndexDown(index, last) == IF index # last THEN index + 1 ELSE index

\* What an update call gives back: the component, the store, the file,
\* whether the key was handled, whether the call panicked, what it wrote and
\* whether the modal had handled the key.
Outcome(l, db, disk, handled) ==
    [list |-> l, db |-> db, disk |-> disk, handled |-> handled,
     panic |-> FALSE, wrote |-> "none", modal_handled |-> FALSE]

\* Mutant of WriteUnwrap: the store is changed in memory and never written.
WriteUnwrapSkipsWrite(l, db, disk, wok) == Outcome(l, db, disk, TRUE)

\* db_info.write(&state.path).unwrap(), lines 199-200 and 216-217.
WriteUnwrap(l, db, disk, wok) ==
    IF wok
    THEN [Outcome(l, db, Written(InfoOf(db)), TRUE) EXCEPT !.wrote = "ok"]
    ELSE [Outcome(l, db, disk, TRUE) EXCEPT !.wrote = "failed", !.panic = TRUE]

\* update, lines 187-205: the popup is open.
PopupKeys(l, key, db, disk, now, wok) ==
    IF key.code = "Enter"
    THEN LET c == ModalClose(l.task_popup)
             l1 == [l EXCEPT !.task_popup = c.modal]
         IN  IF c.some
             THEN WriteUnwrap(l1, AddNode(db, c.text, now), disk, wok)
             ELSE Outcome(l1, db, disk, TRUE)
    ELSE Outcome(l, db, disk, FALSE)

\* update, lines 206-235: the list's own bindings.
ListKeys(l, key, db, disk, wok, checked) ==
    LET task_indices == NodeIndices(db)
    IN  IF key.code = "c" /\ ~key.ctrl
        THEN Outcome([l EXCEPT !.task_popup = ModalOpen(@)], db, disk, TRUE)
        ELSE IF key.code = "d" /\ ~key.ctrl /\ Len(task_indices) # 0
        THEN IF InBounds(task_indices, l.index)
             THEN WriteUnwrap(l, RemoveNode(db, DeleteTarget(task_indices, l.index)), disk, wok)
             ELSE [Outcome(l, db, disk, TRUE) EXCEPT !.panic = TRUE]
        ELSE IF key.code = "Up"
        THEN Outcome([l EXCEPT !.index = IndexUp(@)], db, disk, TRUE)
        ELSE IF key.code = "Down"
        THEN LET last == LenMinusOne(Len(task_indices), checked)
             IN  IF last.panic
                 THEN [Outcome(l, db, disk, TRUE) EXCEPT !.panic = TRUE]
                 ELSE Outcome([l EXCEPT !.index = IndexDown(@, last.value)], db, disk, TRUE)
        ELSE Outcome(l, db, disk, FALSE)

\* Mutant of PopupFirst: the popup is not asked.
PopupFirstSkipped(l, key) == [modal |-> l.task_popup, handled |-> FALSE]

\* update, lines 177-179: the popup is asked first.
PopupFirst(l, key) == ModalUpdate(l.task_popup, key)

\* Mutant of ListUpdate: the list's own bindings run whatever the popup's
\* state.
ListUpdateWithoutPopup(l, key, db, disk, now, wok, checked) ==
    ListKeys([l EXCEPT !.index = ClampIndex(@, Len(NodeIndices(db)))],
             key, db, disk, wok, checked)

\* BasicTaskList::update, lines 176-236.
ListUpdate(l, key, db, disk, now, wok, checked) ==
    LET mu == PopupFirst(l, key)
    IN  IF mu.handled
        THEN [Outcome([l EXCEPT !.task_popup = mu.modal], db, disk, TRUE)
                 EXCEPT !.modal_handled = TRUE]
        ELSE LET l1 == [l EXCEPT !.task_popup = mu.modal,
                                 !.index = ClampIndex(@, Len(NodeIndices(db)))]
             IN  IF IsOpen(l1.task_popup)
                 THEN PopupKeys(l1, key, db, disk, now, wok)
                 ELSE ListKeys(l1, key, db, disk, wok, checked)

\* ------------------------------------------------ TabLayout, LayoutRoot
\* (ui/tab_layout.rs is not among the sources at hand; modelled from the
\* design document, section 4.4, with Left/Right switching tabs and wrapping
\* at the ends.)

\* LayoutRoot::new, lines 90-99: "Tasks" and "Tasks (rev)".
NumTabs == 2

\* LayoutRoot::new
NewRoot == [active |-> 1, children |-> <<NewList(FALSE), NewList(TRUE)>>]

ActiveList(tabs) == tabs.children[tabs.active]

\* TabLayout::update on a key its active child left unhandled.
TabKeys(active, key) ==
    IF key.code = "Right" THEN [active |-> (active % NumTabs) + 1, handled |-> TRUE]
    ELSE IF key.code = "Left" THEN [active |-> ((active + NumTabs - 2) % NumTabs) + 1, handled |-> TRUE]
    ELSE [active |-> active, handled |-> FALSE]

\* Mutant of TabUpdate: the tab keys are interpreted whether or not the
\* active child handled the key.
TabUpdateSwitchesAnyway(tabs, key, db, disk, now, wok, checked) ==
    LET r  == ListUpdate(ActiveList(tabs), key, db, disk, now, wok, checked)
        t1 == [tabs EXCEPT !.children[tabs.active] = r.list]
        tk == TabKeys(tabs.active, key)
    IN  [tabs |-> [t1 EXCEPT !.active = tk.active], db |-> r.db, disk |-> r.disk,
         handled |-> r.handled \/ tk.handled, panic |-> r.panic, wrote |-> r.wrote,
         modal_handled |-> r.modal_handled, list_handled |-> r.handled]

\* TabLayout::update: the active child first, then the tab keys.
TabUpdate(tabs, key, db, disk, now, wok, checked) ==
    LET r  == ListUpdate(ActiveList(tabs), key, db, disk, now, wok, checked)
        t1 == [tabs EXCEPT !.children[tabs.active] = r.list]
        tk == TabKeys(tabs.active, key)
    IN  IF r.handled
        THEN [tabs |-> t1, db |-> r.db, disk |-> r.disk, handled |-> TRUE,
              panic |-> r.panic, wrote |-> r.wrote,
              modal_handled |-> r.modal_handled, list_handled |-> TRUE]
        ELSE [tabs |-> [t1 EXCEPT !.active = tk.active], db |-> r.db, disk |-> r.disk,
              handled |-> tk.handled, panic |-> r.panic, wrote |-> r.wrote,
              modal_handled |-> r.modal_handled, list_handled |-> FALSE]

\* LayoutRoot::update, lines 109-111.
RootUpdate(tabs, key, db, disk, now, wok, checked) ==
    TabUpdate(tabs, key, db, disk, now, wok, checked)

\* LayoutRoot::render, lines 105-107: the active child only.
RootRender(tabs, db) == RenderList(ActiveList(tabs), db)

\* run_loop, lines 54-63: the keys of the fallback bindings that break the
\* loop.
Quits(key) ==
    \/ key.code \in {"q", "Esc"}
    \/ key.code = "c" /\ key.ctrl

\* Mutant of Breaks: the fallback bindings run whether or not the key was
\* handled.
BreaksIgnoringHandled(handled, key) == Quits(key)

\* run_loop, lines 53-58: the loop breaks on a quit key that the component
\* tree left unhandled.
Breaks(handled, key) == ~handled /\ Quits(key)

\* --------------------------------------------------------------- state
VARIABLES
    pc,      \* where the process is: "main", "created", "wait" (blocked in
             \* event::read), "done", "load_error", "run_error", "panicked"
    disk,    \* the file at `path`
    db,      \* AppState.database.tasks
    tabs,    \* the LayoutRoot of run_loop
    raw,     \* raw mode is enabled
    alt,     \* the alternate screen is entered
    frame,   \* what the last terminal.draw displayed
    out,     \* the messages printed with println!, in order
    ev       \* the last key event processed and what update reported

vars == <<pc, disk, db, tabs, raw, alt, frame, out, ev>>

NoFrame == [rows |-> <<>>, selected |-> [some |-> FALSE, idx |-> 0],
            popup |-> [some |-> FALSE, text |-> <<>>]]

NoEvent == [key |-> NoKey, modal_handled |-> FALSE, list_handled |-> FALSE,
            handled |-> FALSE, wrote |-> "none", broke |-> FALSE]

Init ==
    /\ pc = "main"
    /\ disk \in {NoFile}
                    \cup {[exists |-> TRUE, corrupt |-> TRUE, info |-> <<>>]}
                    \cup {Written(info) : info \in DatabaseInfos}
    /\ db = <<>>
    /\ tabs = NewRoot
    /\ raw = FALSE
    /\ alt = FALSE
    /\ frame = NoFrame
    /\ out = <<>>
    /\ ev = NoEvent

\* main, line 42: run_app returned an error.
RunError ==
    /\ pc' = "run_error"
    /\ out' = Append(out, "Error while running app")

\* Mutant of ReadDatabase: a file that cannot be read counts as an empty
\* store.
ReadDatabaseOrDefault(d) ==
    [ok |-> TRUE, db |-> IF d.corrupt THEN DatabaseOf(DefaultInfo) ELSE DatabaseOf(d.info)]

\* create, lines 34 and 37: DatabaseInfo::read(&path)? and
\* db_info.try_into()?, either of which returns the error.
ReadDatabase(d) == [ok |-> ~d.corrupt, db |-> DatabaseOf(d.info)]

\* main, lines 33-39, and AppState::create, lines 26-40.
Create ==
    /\ pc = "main"
    /\ \E wok \in BOOLEAN :
          IF ~disk.exists
          THEN IF wok
               THEN /\ disk' = Written(DefaultInfo)
                    /\ db' = DatabaseOf(DefaultInfo)
                    /\ pc' = "created"
                    /\ out' = Append(out, "does not exist, creating a new one")
               ELSE /\ pc' = "load_error"
                    /\ out' = out \o <<"does not exist, creating a new one",
                                       "Error while loading database">>
                    /\ UNCHANGED <<disk, db>>
          ELSE /\ wok
               /\ \E rd \in {ReadDatabase(disk)} :
                     IF ~rd.ok
                     THEN /\ pc' = "load_error"
                          /\ out' = Append(out, "Error while loading database")
                          /\ UNCHANGED <<disk, db>>
                     ELSE /\ db' = rd.db
                          /\ pc' = "created"
                          /\ UNCHANGED <<disk, out>>
    /\ UNCHANGED <<tabs, raw, alt, frame, ev>>

\* run_app, lines 47-55, and run_loop, lines 46-49, up to the first read.
\* `fail` names the call that returns an error, if any.
RunApp ==
    /\ pc = "created"
    /\ \E fail \in {"none", "enable_raw_mode", "EnterAlternateScreen", "Terminal::new", "draw"} :
          /\ raw' = (fail # "enable_raw_mode")
          /\ alt' = (fail \notin {"enable_raw_mode", "EnterAlternateScreen"})
          /\ tabs' = NewRoot
          /\ IF fail = "none"
             THEN /\ frame' = RootRender(NewRoot, db)
                  /\ pc' = "wait"
                  /\ UNCHANGED out
             ELSE /\ RunError
                  /\ UNCHANGED frame
    /\ UNCHANGED <<disk, db, ev>>

\* run_app, lines 57-61, after the loop broke.  `fail` names the call that
\* returns an error, if any.
Restore(fail) ==
    /\ raw' = (fail = "disable_raw_mode")
    /\ alt' = (fail \in {"disable_raw_mode", "LeaveAlternateScreen"})
    /\ IF fail = "none"
       THEN pc' = "done" /\ UNCHANGED out
       ELSE RunError

\* run_loop, line 49: terminal.draw of the whole tree; on an error run_loop
\* and run_app return it.
Draw(ok, t, d) ==
    IF ok
    THEN /\ frame' = RootRender(t, d)
         /\ pc' = "wait"
         /\ UNCHANGED out
    ELSE /\ RunError
         /\ UNCHANGED frame

\* One turn of run_loop on a key event, the key one of `keys`: lines 51-65,
\* then either the break and run_app's restore, or the next draw (line 49).
KeyPressed(keys) ==
    /\ pc = "wait"
    /\ \E key \in keys, now \in 1..MaxTime, wok \in BOOLEAN, checked \in BOOLEAN,
          fail \in {"none", "draw", "disable_raw_mode", "LeaveAlternateScreen", "show_cursor"} :
          \* inputs that the key cannot make matter are fixed
          /\ now = 1 \/ key.code = "Enter"
          /\ wok \/ key.code \in {"Enter", "d"}
          /\ ~checked \/ (key.code = "Down" /\ Len(db) = 0)
          /\ fail \in {"none", "draw"} \/ Quits(key)
          /\ \E r \in {RootUpdate(tabs, key, db, disk, now, wok, checked)} :
              /\ \A i \in 1..NumTabs :
                    /\ r.tabs.children[i].index <= MaxIndex
                    /\ Len(r.tabs.children[i].task_popup.text) <= MaxBuf
              /\ Len(r.db) <= MaxTasks \/ Len(r.db) <= Len(db)
              /\ ev' = [key |-> key, modal_handled |-> r.modal_handled,
                        list_handled |-> r.list_handled, handled |-> r.handled,
                        wrote |-> r.wrote,
                        broke |-> ~r.panic /\ Breaks(r.handled, key)]
              /\ tabs' = r.tabs
              /\ db' = r.db
              /\ disk' = r.disk
              /\ IF r.panic
                 THEN /\ fail = "none"
                      /\ pc' = "panicked"
                      /\ UNCHANGED <<raw, alt, frame, out>>
                 ELSE IF Breaks(r.handled, key)
                 THEN /\ fail # "draw"
                      /\ Restore(fail)
                      /\ UNCHANGED frame
                 ELSE /\ fail \in {"none", "draw"}
                      /\ Draw(fail = "none", r.tabs, r.db)
                      /\ UNCHANGED <<raw, alt>>

KeyEvent == KeyPressed(Keys)

\* One turn of run_loop on an event that is no key (line 51 does not match):
\* the loop draws again.
OtherEvent ==
    /\ pc = "wait"
    /\ \E ok \in BOOLEAN : Draw(ok, tabs, db)
    /\ ev' = NoEvent
    /\ UNCHANGED <<disk, db, tabs, raw, alt>>

\* event::read()? returns an error, line 51.
ReadError ==
    /\ pc = "wait"
    /\ RunError
    /\ ev' = NoEvent
    /\ UNCHANGED <<disk, db, tabs, raw, alt, frame>>

Next == Create \/ RunApp \/ KeyEvent \/ OtherEvent \/ ReadError

Spec == Init /\ [][Next]_vars

\* The same program started on any database file, its tasks in any order of
\* creation time (a clock set back between two creations, a file edited by
\* hand).
InitAnyFile ==
    /\ pc = "main"
    /\ disk \in {NoFile}
                    \cup {[exists |-> TRUE, corrupt |-> TRUE, info |-> <<>>]}
                    \cup {Written(info) :
                            info \in SeqsUpTo([title : InitTitles, time : 1..MaxTime], MaxTasks)}
    /\ db = <<>>
    /\ tabs = NewRoot
    /\ raw = FALSE
    /\ alt = FALSE
    /\ frame = NoFrame
    /\ out = <<>>
    /\ ev = NoEvent

\* The keys of the list view and of the loop: no modal is opened.
ViewKeys ==
    {k \in Keys : (k.code = "c" => k.ctrl) /\ k.code \notin {"Enter", "Backspace"}}

ViewKeyEvent == KeyPressed(ViewKeys)

NextAnyFile == Create \/ RunApp \/ ViewKeyEvent \/ OtherEvent \/ ReadError

SpecAnyFile == InitAnyFile /\ [][NextAnyFile]_vars

\* The same program started on a database file of MaxTasks + 1 tasks in
\* creation order.
InitLongFile ==
    /\ pc = "main"
    /\ disk \in {Written(info) :
                    info \in {i \in [1..(MaxTasks + 1) -> [title : InitTitles, time : 1..MaxTime]] :
                                \A k \in 1..MaxTasks : i[k].time <= i[k + 1].time}}
    /\ db = <<>>
    /\ tabs = NewRoot
    /\ raw = FALSE
    /\ alt = FALSE
    /\ frame = NoFrame
    /\ out = <<>>
    /\ ev = NoEvent

SpecLongFile == InitLongFile /\ [][NextAnyFile]_vars

\* ------------------------------------------------------------- claims
\* The list whose update runs on the next key event.
Active == ActiveList(tabs)

\* The same list after the step.
ActiveAfter == tabs'.children[tabs.active]

\* The step is one turn of run_loop on a key event.
KeyStep == pc = "wait" /\ ev'.key # NoKey

PlainKey(code) == [code |-> code, ctrl |-> FALSE]

\* C1: whenever BasicTaskList::update returns and the store holds count > 0
\* tasks, the selection index of the list that was updated is within
\* [0, count - 1].
C1_IndexInRangeAfterUpdate ==
    [][(KeyStep /\ pc' # "panicked" /\ Len(db') > 0)
          => ActiveAfter.index \in 0..(Len(db') - 1)]_vars

\* C2: `d` without modifiers, with the modal closed, a non-empty store and an
\* in-range index, removes exactly the task displayed at the selected row and
\* nothing else.
C2_DeleteRemovesDisplayedRow ==
    [][(/\ KeyStep
        /\ ev'.key = PlainKey("d")
        /\ ~IsOpen(Active.task_popup)
        /\ Len(db) > 0
        /\ Active.index < Len(db)
        /\ pc' # "panicked")
          => db' = RemoveNode(db, DisplayedTasks(Active, db)[Active.index + 1].h)]_vars

\* C3: Enter on an open modal holding the typed text adds exactly one task
\* with that title, keeps the earlier tasks, closes the modal and writes the
\* store before update returns.
C3_EnterCreatesTask ==
    [][(/\ KeyStep
        /\ ev'.key.code = "Enter"
        /\ IsOpen(Active.task_popup)
        /\ Len(Active.task_popup.text) > 0
        /\ Len(db) < MaxTasks
        /\ pc' # "panicked")
          => /\ \E now \in 1..MaxTime : db' = AddNode(db, Active.task_popup.text, now)
             /\ ~IsOpen(ActiveAfter.task_popup)
             /\ disk' = Written(InfoOf(db'))]_vars

\* No task of the store is removed by the step.
NoTaskRemoved == \A i \in 1..Len(db) : \E j \in 1..Len(db') : db'[j] = db[i]

\* C4: while the list's modal is open no key reaches the list's own bindings:
\* the index does not move, no task is removed, `c` does not reset the modal,
\* a task is added only by Enter and the modal is closed only by Enter or
\* Escape.
C4_ModalExclusive ==
    [][(pc = "wait" /\ IsOpen(Active.task_popup))
          => /\ ActiveAfter.index = Active.index
             /\ NoTaskRemoved
             /\ (ev'.key = PlainKey("c") /\ IsOpen(ActiveAfter.task_popup))
                   => ActiveAfter.task_popup.text = Append(Active.task_popup.text, "c")
             /\ Len(db') > Len(db) => ev'.key.code = "Enter"
             /\ ~IsOpen(ActiveAfter.task_popup) => ev'.key.code \in {"Enter", "Esc"}]_vars

\* C4 witness: `d` arrived while the modal was open over a non-empty store,
\* and the modal is still open.
C4_Witness ==
    /\ pc = "wait"
    /\ ev.key = PlainKey("d")
    /\ Len(db) > 0
    /\ IsOpen(Active.task_popup)

\* C5: a key that arrives while the active list's modal is open is reported
\* handled, changes no tab and does not end the loop.
C5_OpenModalHandlesEveryKey ==
    [][(KeyStep /\ IsOpen(Active.task_popup))
          => /\ ev'.list_handled
             /\ ev'.handled
             /\ tabs'.active = tabs.active
             /\ ~ev'.broke
             /\ pc' # "done"
             /\ raw' = raw /\ alt' = alt]_vars

\* C5 witness: Ctrl-C arrived while the modal was open and the loop is still
\* waiting for keys.
C5_Witness ==
    /\ pc = "wait"
    /\ ev.key = [code |-> "c", ctrl |-> TRUE]
    /\ ev.modal_handled
    /\ IsOpen(Active.task_popup)

\* C6: when a descendant reports the key handled its ancestor does nothing of
\* its own: the list changes neither its index nor the store, the tab
\* container keeps the active tab, the loop does not apply its fallback.
C6_HandledStopsAncestors ==
    [][KeyStep
          => /\ ev'.modal_handled
                   => /\ ActiveAfter.index = Active.index
                      /\ db' = db /\ disk' = disk
                      /\ ev'.list_handled
             /\ ev'.list_handled => (tabs'.active = tabs.active /\ ev'.handled)
             /\ ev'.handled => (~ev'.broke /\ pc' # "done" /\ raw' = raw)]_vars

\* C6 witness: Escape was handled by the open modal, which closed; the tab is
\* the same and the loop goes on.
C6_Witness ==
    /\ pc = "wait"
    /\ ev.key.code = "Esc"
    /\ ev.modal_handled
    /\ ~IsOpen(Active.task_popup)

\* C7: when writes succeed the file equals the store after AppState::create
\* and whenever the loop waits for a key; an update writes the file if and
\* only if it added or removed a task.
C7_DiskFollowsStore ==
    [][/\ pc' \in {"created", "wait", "done", "run_error"}
             => disk' = Written(InfoOf(db'))
       /\ KeyStep => /\ (db' # db) <=> (ev'.wrote # "none")
                     /\ ev'.wrote = "none" => disk' = disk]_vars

\* C7 witness: `d` removed a task, the write succeeded and the loop waits for
\* the next key.
C7_Witness ==
    /\ pc = "wait"
    /\ ev.key = PlainKey("d")
    /\ ev.wrote = "ok"
    /\ Len(db) > 0

\* C8: a failed write after a create or a delete does not end the process
\* abruptly: the update call returns and the session continues.
C8_SaveFailureIsReported == ev.wrote = "failed" => pc \in {"wait", "done", "run_error"}

\* C9: a modal session opened with `c` starts from an empty buffer, the buffer
\* is the text typed net of backspaces, Enter creates the task titled with
\* that text, and Escape closes the modal without creating a task or writing.
C9_TitleIsTypedText ==
    [][(KeyStep /\ pc' # "panicked")
          => /\ (~IsOpen(Active.task_popup) /\ IsOpen(ActiveAfter.task_popup))
                   => ActiveAfter.task_popup.text = <<>>
             /\ (IsOpen(Active.task_popup) /\ ev'.key.code \in Chars /\ ~ev'.key.ctrl)
                   => ActiveAfter.task_popup.text
                         = Append(Active.task_popup.text, ev'.key.code)
             /\ (IsOpen(Active.task_popup) /\ ev'.key.code = "Backspace")
                   => ActiveAfter.task_popup.text = Front(Active.task_popup.text)
             /\ (IsOpen(Active.task_popup) /\ ev'.key.code = "Esc")
                   => /\ ~IsOpen(ActiveAfter.task_popup)
                      /\ db' = db /\ disk' = disk /\ ev'.wrote = "none"
             /\ (IsOpen(Active.task_popup) /\ ev'.key.code = "Enter" /\ Len(db) < MaxTasks)
                   => /\ Len(db') = Len(db) + 1
                      /\ db'[Len(db')].title = Active.task_popup.text]_vars

\* C10: AppState::create on a path that does not exist writes an empty store
\* there and returns an empty store; a draw of an empty store highlights no
\* row.
C10_CreateOnMissingPath ==
    [][/\ (pc = "main" /\ ~disk.exists /\ pc' = "created")
             => (disk' = Written(<<>>) /\ Len(db') = 0)
       /\ (pc' = "wait" /\ Len(db') = 0) => ~frame'.selected.some]_vars

\* C10 witness: the path did not exist, the empty store was written and the
\* first frame is drawn with no row highlighted.
C10_Witness ==
    /\ pc = "wait"
    /\ ev = NoEvent
    /\ out = <<"does not exist, creating a new one">>
    /\ disk = Written(<<>>)
    /\ frame.rows = <<>>
    /\ ~frame.selected.some

\* C11: when the database file exists but cannot be read or converted, the
\* program prints the message and exits: the file is left as it was, raw mode
\* is never enabled, nothing is drawn, no key is processed, and no step
\* follows the exit.
C11_LoadFailureExits ==
    [][/\ (pc = "main" /\ disk.exists /\ disk.corrupt)
             => /\ pc' = "load_error"
                /\ out' = <<"Error while loading database">>
                /\ disk' = disk
                /\ ~raw' /\ ~alt'
                /\ frame' = NoFrame
                /\ ev' = NoEvent
       /\ pc # "load_error"]_vars

\* C11 witness: the unreadable file made the program exit with the message.
C11_Witness ==
    /\ pc = "load_error"
    /\ disk.exists /\ disk.corrupt
    /\ out = <<"Error while loading database">>
    /\ ~raw

\* C12: for every store the reversed list displays exactly the reverse of
\* what the ascending list displays, which is every task of the store in
\* order of time_created, tasks of equal time in the store's iteration order.
C12_ReversedIsReverseOfAscending ==
    LET asc == DisplayedTasks(tabs.children[1], db)
        rev == DisplayedTasks(tabs.children[2], db)
    IN  /\ rev = Reverse(asc)
        /\ Len(asc) = Len(db)
        /\ \A i \in 1..Len(db) : \E j \in 1..Len(asc) : asc[j] = db[i]
        /\ \A i, j \in 1..Len(asc) :
              i < j => \/ asc[i].time < asc[j].time
                       \/ asc[i].time = asc[j].time /\ asc[i].h < asc[j].h

\* C12 witness: the reversed list is drawn for a store whose iteration order
\* is not its order of creation time.
C12_Witness ==
    /\ pc = "wait"
    /\ tabs.active = 2
    /\ Len(db) = 2
    /\ db[1].time > db[2].time
    /\ Len(frame.rows) = 2

\* C13: with the modal closed and a store of n > 0 tasks, Up sets the index
\* to max(index - 1, 0) and Down sets it to min(index + 1, n - 1), both
\* handled and neither changing the store or the file; every key other than
\* plain `c`, plain `d`, Up and Down is reported unhandled by the list and
\* changes neither the store, the file nor the modal.
C13_UpDownMoveWithinList ==
    [][(KeyStep /\ ~IsOpen(Active.task_popup) /\ Len(db) > 0)
          => LET key == ev'.key
                 index == Active.index
                 n == Len(db)
             IN  /\ key.code = "Up"
                      => /\ ActiveAfter.index = (IF index > 0 THEN index - 1 ELSE 0)
                         /\ ev'.list_handled /\ db' = db /\ disk' = disk
                 /\ key.code = "Down"
                      => /\ ActiveAfter.index = (IF index + 1 < n - 1 THEN index + 1 ELSE n - 1)
                         /\ ev'.list_handled /\ db' = db /\ disk' = disk
                 /\ (key.code \notin {"Up", "Down"} /\ key # PlainKey("c") /\ key # PlainKey("d"))
                      => /\ ~ev'.list_handled /\ db' = db /\ disk' = disk
                         /\ ActiveAfter.task_popup = Active.task_popup]_vars

\* C14: on an empty store with the modal closed, Down and Up do not abort
\* and do not let the index grow: an index of 0 stays 0.
C14_EmptyStoreUpDownInfallible ==
    [][(/\ KeyStep
        /\ Len(db) = 0
        /\ ~IsOpen(Active.task_popup)
        /\ ev'.key.code \in {"Up", "Down"})
          => /\ pc' # "panicked"
             /\ ActiveAfter.index <= Active.index]_vars

\* C15: at every render the highlighted row index is below the number of
\* rows when there are rows, and no row is highlighted when there are none,
\* whichever tab made the creates and deletes.
C15_RenderedSelectionInRange ==
    /\ frame.selected.some => frame.selected.idx < Len(frame.rows)
    /\ Len(frame.rows) = 0 => ~frame.selected.some

\* C16: a key event reaches the active tab's child only: the inactive
\* list's index and modal are unchanged by every update, and the active tab
\* changes only on a key the active child reported unhandled.
C16_OnlyActiveChildUpdated ==
    [][KeyStep
          => /\ \A i \in 1..NumTabs :
                   i # tabs.active => tabs'.children[i] = tabs.children[i]
             /\ tabs'.active # tabs.active => ~ev'.list_handled]_vars

C16_Witness ==
    /\ pc = "wait"
    /\ tabs.active = 1
    /\ ev.key = PlainKey("Right")
    /\ ev.list_handled
    /\ IsOpen(tabs.children[1].task_popup)
    /\ tabs.children[2].index = 1

\* C17: on a key the component tree reports unhandled the loop breaks if
\* and only if the key is `q`, Escape or Ctrl-C; every other unhandled key
\* leaves the store, the file and the components unchanged and the loop
\* goes on; Ctrl-C with the modal closed is not the create binding: it
\* quits and opens no modal.
C17_UnhandledKeysQuitOrDoNothing ==
    [][KeyStep
          => LET key == ev'.key
             IN  /\ ~ev'.handled
                      => /\ ev'.broke <=> Quits(key)
                         /\ ~Quits(key) => db' = db /\ disk' = disk /\ tabs' = tabs
                 /\ (key = [code |-> "c", ctrl |-> TRUE] /\ ~IsOpen(Active.task_popup))
                      => /\ ~ev'.handled
                         /\ ev'.broke
                         /\ ~IsOpen(ActiveAfter.task_popup)]_vars

\* C18: whenever run_app returns, by a quit or by an error of entering the
\* alternate screen, of drawing or of reading an event, raw mode is off and
\* the alternate screen is left.  (A return on an error of the restoring
\* calls themselves is not among the claim's paths.)
C18_RestoredOnEveryReturn ==
    [][(/\ pc \in {"created", "wait"}
        /\ pc' \in {"done", "run_error"}
        /\ ~(ev'.broke /\ pc' = "run_error"))
          => ~raw' /\ ~alt']_vars

\* C19: whenever the `d` binding executes (plain `d`, modal closed, store
\* not empty), the index it looks up is below the number of handles: the
\* lookup does not abort, one task is removed and the write is reached,
\* whatever the index was before the update.
C19_DeleteLookupInBounds ==
    [][(/\ KeyStep
        /\ ev'.key = PlainKey("d")
        /\ ~IsOpen(Active.task_popup)
        /\ Len(db) > 0)
          => /\ ev'.wrote # "none"
             /\ Len(db') = Len(db) - 1]_vars

C19_Witness ==
    /\ pc = "wait"
    /\ ev.key = PlainKey("d")
    /\ ev.wrote = "ok"
    /\ Len(db) > 0
    /\ Active.index >= Len(db)
====
